---- MODULE Spec2Model ----
(***************************************************************************)
(* Model of the five AWS Kafka discovery scripts of                        *)
(* aws_integration/eventscripts.  One behaviour is one invocation of one   *)
(* script: Init fixes the command line and the installed tools, the        *)
(* actions are the steps of the script's main, and the answers of AWS      *)
(* (list_clusters, list_nodes, get_metric_data) are chosen when the call   *)
(* is made.                                                                *)
(*                                                                         *)
(* Python strings that the code builds by conversion (str(), f"{x:.2f}",   *)
(* split/join) are sequences of one-character strings; strings the code    *)
(* only copies are TLA+ strings.  f-strings are tuples of their fragments. *)
(* CloudWatch sample values are binary fractions counted in eighths        *)
(* (value 11 is 1.375), so that float arithmetic on them is exact.         *)
(* JSON keys "{#NAME}" are the record fields NAME.                         *)
(***************************************************************************)
EXTENDS Integers, Sequences, FiniteSets, TLC

\* ------------------------------------------------------------------ bounds
\* Total number of broker nodes list_nodes returns over all clusters.
MaxBrokers == 2
\* Number of datapoints one metric query returns at most.
MaxSeries == 1
\* Length of the strings format_broker_name is applied to in SpecFmt.
MaxNameLen == 4
\* Datapoints (timestamps, values) in one result handed to generate_metrics_json alone.
MaxPoints == 2
\* hostsClusters.py invocations started on one day.
MaxRuns == 3

\* ------------------------------------------------------------ input domains
Scripts == {"Brokers", "ItemsBrokers", "ItemsClusters", "hostsClusters", "host_cluster_test"}
FilterScripts == {"Brokers", "ItemsClusters", "host_cluster_test"}
commands == <<"aws", "jq">>
Profile == "prof"
\* list_clusters answers with the clusters of the account, in a fixed order.
ClusterLists == {<<>>, <<"c1">>, <<"c2">>, <<"c1", "c2">>}
\* argv[2]: absent (None), the empty string, or a name.
NoFilter == [given |-> FALSE, s |-> ""]
Filters == {NoFilter, [given |-> TRUE, s |-> ""], [given |-> TRUE, s |-> "c1"]}
\* Sample values of each metric, in eighths: a CPU percentage 0.375, a disk
\* percentage 1.0, and 0.0 or 1.0 offline partitions.
ValuesOf(id) == CASE id = "cpuUser" -> {3}
                  [] id = "kafkaDataLogsDiskUsed" -> {8}
                  [] id = "offlinePartitionsCount" -> {0, 8}
NameChars == {"b", "."}
ErrText == "boom"

\* ------------------------------------------------------------ string helpers
Digit(d) == CASE d = 0 -> "0" [] d = 1 -> "1" [] d = 2 -> "2" [] d = 3 -> "3" [] d = 4 -> "4"
              [] d = 5 -> "5" [] d = 6 -> "6" [] d = 7 -> "7" [] d = 8 -> "8" [] d = 9 -> "9"

RECURSIVE Str(_)
\* str(n) for an int n >= 0.
Str(n) == IF n < 10 THEN <<Digit(n)>> ELSE Append(Str(n \div 10), Digit(n % 10))

RECURSIVE SumSeq(_)
SumSeq(s) == IF s = <<>> THEN 0 ELSE s[1] + SumSeq(Tail(s))

RECURSIVE Concat(_)
Concat(ss) == IF ss = <<>> THEN <<>> ELSE ss[1] \o Concat(Tail(ss))

SeqsUpTo(S, n) == UNION {[1..k -> S] : k \in 0..n}

VARIABLES script, tools, clustername_filter, pc, brokers, all_metrics_json,
          stdout, exitcode, raised, calls, clusters, error_msg, idx, log, files,
          listed,
          response,   \* the get_metric_data answer handed to generate_metrics_json (SpecGen)
          inv         \* the concurrent invocations that are saving their output (SpecRace)

vars == <<script, tools, clustername_filter, pc, brokers, all_metrics_json,
          stdout, exitcode, raised, calls, clusters, error_msg, idx, log, files,
          listed, response, inv>>

\* --------------------------------------------------------- pure conversions
IndexOfDot(s) == IF \E i \in 1..Len(s) : s[i] = "."
                 THEN CHOOSE i \in 1..Len(s) : s[i] = "." /\ \A j \in 1..(i - 1) : s[j] # "."
                 ELSE 0

RECURSIVE Split(_)
\* s.split('.')
Split(s) == IF IndexOfDot(s) = 0 THEN <<s>>
            ELSE <<SubSeq(s, 1, IndexOfDot(s) - 1)>> \o Split(SubSeq(s, IndexOfDot(s) + 1, Len(s)))

RECURSIVE Join(_)
\* '.'.join(parts)
Join(parts) == IF Len(parts) = 0 THEN <<>>
               ELSE IF Len(parts) = 1 THEN parts[1]
               ELSE parts[1] \o <<".">> \o Join(Tail(parts))

\* format_broker_name with the length test off by one.
format_broker_name_M(full_broker_name) ==
    LET parts == Split(full_broker_name)
    IN IF Len(parts) > 3 THEN Join(SubSeq(parts, 1, 2)) ELSE full_broker_name

format_broker_name(full_broker_name) ==
    LET parts == Split(full_broker_name)
    IN IF Len(parts) >= 3 THEN Join(SubSeq(parts, 1, 2)) ELSE full_broker_name

\* round(x, 2) of a value in eighths, as a count of hundredths (ties to even).
Round2(v) == LET n == v * 25
             IN IF n % 2 = 0 THEN n \div 2
                ELSE IF (n \div 2) % 2 = 0 THEN n \div 2 ELSE (n \div 2) + 1

\* f"{x:.2f}" of a count of hundredths.
Fmt2f(h) == Str(h \div 100) \o <<".", Digit((h % 100) \div 10), Digit(h % 10)>>

\* str(x) of a float in eighths: the shortest decimal, at least one digit
\* after the point.
StrFloat(v) == LET t == (v % 8) * 125
                   d3 == <<Digit(t \div 100), Digit((t \div 10) % 10), Digit(t % 10)>>
                   n == IF t % 10 # 0 THEN 3 ELSE IF t % 100 # 0 THEN 2 ELSE 1
               IN Str(v \div 8) \o <<".">> \o SubSeq(d3, 1, n)

\* datetime.strftime('%Y-%m-%dT%H:%M:%SZ') of the minute t of the window.
strftime(t) == Str(t) \o <<"Z">>

\* ------------------------------------------------------------ status rows
\* The messages table of zbx_json_output (Brokers.py, ItemsClusters.py).
messages(zbx_exit) == CASE zbx_exit = 0 -> <<"Metricas obtenidas con exito.">>
                        [] zbx_exit = 1 -> <<"Error en la obtencion de metricas.">>
                        [] zbx_exit = 2 -> <<"Informacion sobre ejecucion: revision necesaria.">>
                        [] OTHER -> <<"Mensaje no definido.">>

\* The messages table of zbx_json_output (host_cluster_test.py).
messages_T(zbx_exit) == CASE zbx_exit = 0 -> <<"Clusters obtenidos con exito.">>
                          [] zbx_exit = 1 -> <<"Error en la obtencion de clusters.">>
                          [] zbx_exit = 2 -> <<"Informacion sobre ejecucion: revision necesaria.">>
                          [] OTHER -> <<"Mensaje no definido.">>

\* The status object with the exit code and the record count swapped.
StatusRow_M(info, zbx_exit, zbx_value, zbx_msg, default) ==
    [INFO |-> info,
     MSG |-> IF zbx_msg # <<>> THEN zbx_msg ELSE default,
     EXIT |-> Str(zbx_value),
     REGISTROS |-> Str(zbx_exit)]

\* The status object zbx_json_output builds; zbx_msg = <<>> stands for None.
StatusRow(info, zbx_exit, zbx_value, zbx_msg, default) ==
    [INFO |-> info,
     MSG |-> IF zbx_msg # <<>> THEN zbx_msg ELSE default,
     EXIT |-> Str(zbx_exit),
     REGISTROS |-> Str(zbx_value)]

\* One line written to standard output.
DataLine(rows) == [kind |-> "json", sep |-> "compact", shape |-> "data", data |-> rows]
ObjectLine(obj) == [kind |-> "json", sep |-> "default", shape |-> "object", obj |-> obj]
ArrayLine(items) == [kind |-> "json", sep |-> "indent4", shape |-> "array", items |-> items]
TextLine(text) == [kind |-> "text", text |-> text]

\* str(clustername_filter) inside an f-string.
FilterText(f) == IF f.given THEN f.s ELSE "None"
\* Python truthiness of args.clustername.
Truthy(f) == f.given /\ f.s # ""

\* Brokers.py / ItemsClusters.py zbx_json_output: prints {"data":[output]}.
zbx_json_output(name, profile, metric_type, zbx_exit, zbx_value, zbx_msg) ==
    DataLine(<<StatusRow(<<name, " ", profile, " ", metric_type>>, zbx_exit, zbx_value, zbx_msg,
                        messages(zbx_exit))>>)

\* host_cluster_test.py zbx_json_output: returns the status object.
zbx_json_output_T(profile, zbx_exit, zbx_value, zbx_msg) ==
    StatusRow(<<"disc_AWSKafka_HostsCluster.py ", profile, " Kafka">>, zbx_exit, zbx_value, zbx_msg,
              messages_T(zbx_exit))

\* ItemsBrokers.py zbx_json_output: prints a flat object with json.dumps defaults.
zbx_json_output_IB(profile, metric_type, zbx_msg, zbx_exit, zbx_value) ==
    ObjectLine([info |-> <<"disc_AWSKafka_ItemsBrokers.py ", profile, " ", metric_type>>,
                msg |-> zbx_msg, exit |-> zbx_exit, registros |-> zbx_value])

\* ------------------------------------------------------- CloudWatch answers
\* Timestamps of a series of n datapoints (CloudWatch's default order is
\* newest first).
Stamps(n) == [i \in 1..n |-> n - i + 1]
Series(id) == SeqsUpTo(ValuesOf(id), MaxSeries)
Result(id, vals) == [Id |-> id, Timestamps |-> Stamps(Len(vals)), Values |-> vals]

\* Brokers.py / ItemsBrokers.py get_broker_metrics: the names of the Dimensions
\* of the query with the given Id.
QueryDimensions(id) ==
    IF id = "offlinePartitionsCount" THEN {"Cluster Name"} ELSE {"Cluster Name", "Broker ID"}

\* The answers get_broker_metrics can return: one result per queried id.
BrokerMetricAnswers ==
    {[MetricDataResults |-> <<Result("cpuUser", a), Result("kafkaDataLogsDiskUsed", b),
                              Result("offlinePartitionsCount", c)>>] :
        a \in Series("cpuUser"), b \in Series("kafkaDataLogsDiskUsed"),
        c \in Series("offlinePartitionsCount")}

\* The answers get_cluster_metrics can return.
ClusterMetricAnswers ==
    {[MetricDataResults |-> <<Result("offlinePartitionsCount", c)>>] :
        c \in Series("offlinePartitionsCount")}

\* ---------------------------------------------------- generate_metrics_json
MetricOrder == <<"CpuUser", "KafkaDataLogsDiskUsed", "offlinePartitionsCount">>

metric_id_map(metric_id) == CASE metric_id = "cpuUser" -> "CpuUser"
                              [] metric_id = "kafkaDataLogsDiskUsed" -> "KafkaDataLogsDiskUsed"
                              [] metric_id = "offlinePartitionsCount" -> "offlinePartitionsCount"
                              [] OTHER -> metric_id

\* The entry the loop body appends for one result.
LastPoint(result) == [Timestamp |-> strftime(result.Timestamps[Len(result.Timestamps)]),
                      Average |-> result.Values[Len(result.Values)]]

RECURSIVE GenLoop(_, _)
\* The loop over MetricDataResults; exc names the exception that ends it.
GenLoop(results, metrics) ==
    IF results = <<>> THEN [exc |-> "", Metrics |-> metrics]
    ELSE LET result == results[1]
             mapped == metric_id_map(result.Id)
         IN IF result.Timestamps = <<>> THEN GenLoop(Tail(results), metrics)
            ELSE IF mapped \notin DOMAIN metrics THEN [exc |-> "KeyError", Metrics |-> metrics]
            ELSE IF result.Values = <<>> THEN [exc |-> "IndexError", Metrics |-> metrics]
            ELSE GenLoop(Tail(results),
                         [metrics EXCEPT ![mapped] = Append(@, LastPoint(result))])

\* Brokers.py and ItemsBrokers.py.
generate_metrics_json(broker_metrics, cluster_name, broker_id, broker_name) ==
    LET r == GenLoop(broker_metrics.MetricDataResults,
                     [CpuUser |-> <<>>, KafkaDataLogsDiskUsed |-> <<>>,
                      offlinePartitionsCount |-> <<>>])
    IN [exc |-> r.exc,
        json |-> [ClusterName |-> cluster_name, BrokerId |-> broker_id,
                  BrokerName |-> broker_name, Metrics |-> r.Metrics]]

\* ItemsClusters.py: the result has no BrokerId and no BrokerName.
generate_metrics_json_IC(cluster_metrics, cluster_name) ==
    LET r == GenLoop(cluster_metrics.MetricDataResults, [offlinePartitionsCount |-> <<>>])
    IN [exc |-> r.exc, json |-> [ClusterName |-> cluster_name, Metrics |-> r.Metrics]]

\* hostsClusters.py: every datapoint of every result is kept.
AllPoints(result) == [i \in 1..Len(result.Timestamps) |->
                        [Timestamp |-> strftime(result.Timestamps[i]), Sum |-> result.Values[i]]]

generate_metrics_json_HC(cluster_metrics, cluster_name, brokers_) ==
    LET results == cluster_metrics.MetricDataResults
        bad == \E k \in 1..Len(results) : Len(results[k].Values) < Len(results[k].Timestamps)
    IN [exc |-> IF bad THEN "IndexError" ELSE "",
        json |-> [ClusterName |-> cluster_name, Brokers |-> brokers_,
                  MetricsCluster |->
                     [OfflinePartitionsCount |->
                        IF bad THEN <<>>
                        ELSE Concat([k \in 1..Len(results) |-> AllPoints(results[k])])]]]

\* ---------------------------------------------------- print_metrics_as_json
RECURSIVE Distinct(_, _)
\* The keys of a dict in insertion order.
Distinct(s, seen) == IF s = <<>> THEN <<>>
                     ELSE IF s[1] \in seen THEN Distinct(Tail(s), seen)
                     ELSE <<s[1]>> \o Distinct(Tail(s), seen \cup {s[1]})

Averages(data_points) == [j \in 1..Len(data_points) |-> data_points[j].Average]

\* sum(len(m['Metrics'][name]) for m in all_metrics_json for name in m['Metrics'])
TotalPoints(all) ==
    SumSeq([i \in 1..Len(all) |->
              SumSeq([k \in 1..Len(MetricOrder) |-> Len(all[i].Metrics[MetricOrder[k]])])])

\* offline_partitions_sum with "=" for "+": the last broker's samples win.
offline_partitions_sum_M(all) ==
    LET keys == Distinct([i \in 1..Len(all) |-> all[i].ClusterName], {})
    IN [k \in 1..Len(keys) |->
          [cluster |-> keys[k],
           total_value |->
              LET last == CHOOSE i \in 1..Len(all) :
                             /\ all[i].ClusterName = keys[k]
                             /\ \A j \in (i + 1)..Len(all) : all[j].ClusterName # keys[k]
              IN SumSeq(Averages(all[last].Metrics["offlinePartitionsCount"]))]]

\* The dict offline_partitions_sum after the loop over all_metrics_json, as the
\* sequence of its items.
offline_partitions_sum(all) ==
    LET keys == Distinct([i \in 1..Len(all) |-> all[i].ClusterName], {})
    IN [k \in 1..Len(keys) |->
          [cluster |-> keys[k],
           total_value |->
              SumSeq([i \in 1..Len(all) |->
                        IF all[i].ClusterName = keys[k]
                        THEN SumSeq(Averages(all[i].Metrics["offlinePartitionsCount"]))
                        ELSE 0])]]

\* Brokers.py: the rows of one broker (every metric but offlinePartitionsCount).
BrokerRows(broker_metrics, awprofile) ==
    Concat([k \in 1..Len(MetricOrder) |->
        IF MetricOrder[k] = "offlinePartitionsCount" THEN <<>>
        ELSE [j \in 1..Len(broker_metrics.Metrics[MetricOrder[k]]) |->
                [AWSPROFILE |-> awprofile,
                 NAMESPACE |-> "Kafka",
                 CLUSTERNAME |-> broker_metrics.ClusterName,
                 BROKERNAME |-> format_broker_name(broker_metrics.BrokerName),
                 BROKERID |-> Str(broker_metrics.BrokerId),
                 METRICNAME |-> MetricOrder[k],
                 VALUE |-> Fmt2f(Round2(broker_metrics.Metrics[MetricOrder[k]][j].Average)),
                 METRICUNIT |-> "%",
                 VALUETYPE |-> "Average"]]])

\* The cluster-level rows, skipping the clusters whose total is 0.
ClusterRows_M(all, awprofile) ==
    LET items == SelectSeq(offline_partitions_sum(all), LAMBDA it : it.total_value # 0)
    IN [k \in 1..Len(items) |->
          [AWSPROFILE |-> awprofile,
           NAMESPACE |-> "Kafka",
           CLUSTERNAME |-> items[k].cluster,
           METRICNAME |-> "offlinePartitionsCount",
           VALUE |-> Fmt2f(Round2(items[k].total_value)),
           VALUETYPE |-> "Sum"]]

\* Brokers.py: the cluster-level rows.
ClusterRows(all, awprofile) ==
    LET items == offline_partitions_sum(all)
    IN [k \in 1..Len(items) |->
          [AWSPROFILE |-> awprofile,
           NAMESPACE |-> "Kafka",
           CLUSTERNAME |-> items[k].cluster,
           METRICNAME |-> "offlinePartitionsCount",
           VALUE |-> Fmt2f(Round2(items[k].total_value)),
           VALUETYPE |-> "Sum"]]

\* print_metrics_as_json appending the cluster-level rows inside the broker
\* loop, before the rows of the brokers.
print_metrics_as_json_M(all, awprofile) ==
    DataLine(<<[INFO |-> <<"disc_AWSKafka_ItemsBrokers.py ", awprofile, " Kafka">>,
                MSG |-> <<"Metricas obtenidas con exito.">>,
                EXIT |-> <<"0">>,
                REGISTROS |-> Str(TotalPoints(all))]>>
             \o ClusterRows(all, awprofile)
             \o Concat([i \in 1..Len(all) |-> BrokerRows(all[i], awprofile)]))

\* Brokers.py print_metrics_as_json: the line it prints.
print_metrics_as_json(all, awprofile) ==
    DataLine(<<[INFO |-> <<"disc_AWSKafka_ItemsBrokers.py ", awprofile, " Kafka">>,
                MSG |-> <<"Metricas obtenidas con exito.">>,
                EXIT |-> <<"0">>,
                REGISTROS |-> Str(TotalPoints(all))]>>
             \o Concat([i \in 1..Len(all) |-> BrokerRows(all[i], awprofile)])
             \o ClusterRows(all, awprofile))

\* ItemsBrokers.py: the rows of one broker, every metric included.
BrokerRows_IB(broker_metrics) ==
    Concat([k \in 1..Len(MetricOrder) |->
        [j \in 1..Len(broker_metrics.Metrics[MetricOrder[k]]) |->
            [NAMESPACE |-> "Kafka",
             CLUSTERNAME |-> broker_metrics.ClusterName,
             BROKERNAME |-> broker_metrics.BrokerName,
             BROKERID |-> Str(broker_metrics.BrokerId),
             METRICNAME |-> MetricOrder[k],
             VALUE |-> StrFloat(broker_metrics.Metrics[MetricOrder[k]][j].Average),
             METRICUNIT |-> "%",
             VALUETYPE |-> "Average"]]])

\* ItemsBrokers.py print_metrics_as_json: the line it prints.
print_metrics_as_json_IB(all) ==
    DataLine(Concat([i \in 1..Len(all) |-> BrokerRows_IB(all[i])]))

\* ItemsClusters.py print_metrics_as_json: the first loop pass reads
\* cluster_metrics['BrokerName']; the only print is in the branch of the
\* metrics other than offlinePartitionsCount, of which there are none.
print_metrics_as_json_IC(all, awprofile) ==
    IF \E i \in 1..Len(all) : {"BrokerName", "BrokerId"} \ DOMAIN all[i] # {}
    THEN [exc |-> "KeyError", lines |-> <<>>]
    ELSE [exc |-> "", lines |-> <<>>]

\* print_clusters_as_json with "if clusters is not None" for "if clusters".
print_clusters_as_json_M(cl, awprofile, msg) ==
    LET truthy == ~cl.none
        total_records == IF truthy THEN Len(cl.list) ELSE 0
    IN DataLine(<<zbx_json_output_T(awprofile, IF truthy THEN 0 ELSE 2, total_records, msg)>>
                \o (IF truthy
                    THEN [k \in 1..Len(cl.list) |->
                            [AWSPROFILE |-> awprofile, NAMESPACE |-> "AWS/Kafka",
                             CLUSTERNAME |-> cl.list[k]]]
                    ELSE <<>>))

\* host_cluster_test.py print_clusters_as_json: the line it prints.
print_clusters_as_json(cl, awprofile, msg) ==
    LET truthy == ~cl.none /\ cl.list # <<>>
        total_records == IF truthy THEN Len(cl.list) ELSE 0
    IN DataLine(<<zbx_json_output_T(awprofile, IF truthy THEN 0 ELSE 2, total_records, msg)>>
                \o (IF truthy
                    THEN [k \in 1..Len(cl.list) |->
                            [AWSPROFILE |-> awprofile, NAMESPACE |-> "AWS/Kafka",
                             CLUSTERNAME |-> cl.list[k]]]
                    ELSE <<>>))

\* ----------------------------------------------------------- check_commands
\* The first command of the list that shutil.which does not find, or "".
FirstMissing(t) == IF commands[1] \notin t THEN commands[1]
                   ELSE IF commands[2] \notin t THEN commands[2] ELSE ""

\* check_commands with a commands list that lacks 'jq'.
check_commands_M(t) == commands[1] \in t

check_commands(t) == FirstMissing(t) = ""

\* ------------------------------------------------------------ Kafka answers
\* The raw endpoint list_nodes gives for node i of a cluster: "b<i>.<cluster>.k".
\* (SpecFmt runs the broker path on every bounded name instead.)
Endpoint(cluster, i) == <<"b", Digit(i), ".", cluster, ".", "k">>

\* list_nodes of each listed cluster: the number of nodes of each.
NodeAnswers(cl) ==
    {n \in [1..Len(cl) -> 0..MaxBrokers] : SumSeq(n) <= MaxBrokers}

\* The brokers list get_kafka_brokers / get_kafka_clusters builds.
BuildBrokers(cl, nodes) ==
    Concat([k \in 1..Len(cl) |->
              [i \in 1..nodes[k] |->
                 [ClusterName |-> cl[k], BrokerId |-> i, BrokerName |-> Endpoint(cl[k], i)]]])

\* What list_clusters answered (kept for the properties; the code does not keep it).
NotListed == [ok |-> FALSE, names |-> <<>>]
Listed(cl) == [ok |-> TRUE, names |-> cl]

NoClusters == [none |-> FALSE, list |-> <<>>]
NoFile == [exists |-> FALSE, content |-> <<>>]
NoResponse == [MetricDataResults |-> <<>>]

Init ==
    /\ script \in Scripts
    /\ tools \in SUBSET {"aws", "jq"}
    /\ clustername_filter \in (IF script \in FilterScripts THEN Filters ELSE {NoFilter})
    /\ pc = CASE script \in {"Brokers", "ItemsClusters"} -> "enumerate"
              [] script = "hostsClusters" -> "openlog"
              [] OTHER -> "check"
    /\ brokers = <<>>
    /\ all_metrics_json = <<>>
    /\ stdout = <<>>
    /\ exitcode = -1
    /\ raised = ""
    /\ calls = [session |-> 0, kafka |-> 0, cloudwatch |-> 0]
    /\ clusters = NoClusters
    /\ error_msg = <<>>
    /\ idx = 0
    /\ log = NoFile
    /\ files = [json |-> NoFile, csv |-> NoFile]
    /\ listed = NotListed
    /\ response = NoResponse
    /\ inv = <<>>

\* ------------------------------------------------------------------ actions
\* An exception nobody catches: the traceback goes to stderr, the exit code is 1.
Raise(exc) == /\ pc' = "raised"
              /\ raised' = exc
              /\ exitcode' = 1

Called(s, k, c) == calls' = [session |-> calls.session + s, kafka |-> calls.kafka + k,
                             cloudwatch |-> calls.cloudwatch + c]

LogLine(message) == [exists |-> TRUE, content |-> Append(log.content, message)]

\* host_cluster_test.py __main__ and ItemsBrokers.py main: if not check_commands(): exit(1)
CheckCommands ==
    /\ script \in {"host_cluster_test", "ItemsBrokers"}
    /\ pc = "check"
    /\ IF check_commands(tools)
       THEN /\ pc' = "enumerate"
            /\ UNCHANGED <<stdout, exitcode>>
       ELSE /\ stdout' = Append(stdout, TextLine(<<"No se encontro el comando ", FirstMissing(tools)>>))
            /\ exitcode' = 1
            /\ pc' = "exit"
    /\ UNCHANGED <<response, inv, script, tools, clustername_filter, listed, brokers, all_metrics_json, raised,
                   calls, clusters, error_msg, idx, log, files>>

\* hostsClusters.py main: the log file is opened with 'w' and gets its first line.
HC_OpenLog ==
    /\ script = "hostsClusters"
    /\ pc = "openlog"
    /\ log' = [exists |-> TRUE, content |-> <<<<"Inicio del script">>>>]
    /\ pc' = "check"
    /\ UNCHANGED <<response, inv, script, tools, clustername_filter, listed, brokers, all_metrics_json, stdout,
                   exitcode, raised, calls, clusters, error_msg, idx, files>>

\* hostsClusters.py: check_commands prints and logs, main logs and exits.
HC_CheckCommands ==
    /\ script = "hostsClusters"
    /\ pc = "check"
    /\ IF check_commands(tools)
       THEN /\ pc' = "enumerate"
            /\ UNCHANGED <<stdout, exitcode, log>>
       ELSE /\ stdout' = Append(stdout, TextLine(<<"No se encontro el comando ", FirstMissing(tools)>>))
            /\ log' = [exists |-> TRUE,
                       content |-> log.content \o
                           <<<<"No se encontro el comando ", FirstMissing(tools)>>,
                             <<"Error: Comandos necesarios no encontrados.">>>>]
            /\ exitcode' = 1
            /\ pc' = "exit"
    /\ UNCHANGED <<response, inv, script, tools, clustername_filter, listed, brokers, all_metrics_json, raised,
                   calls, clusters, error_msg, idx, files>>

\* get_kafka_brokers (Brokers.py, ItemsBrokers.py) and get_kafka_clusters
\* (ItemsClusters.py): list_clusters, then list_nodes of every cluster.
GetKafkaBrokers ==
    /\ script \in {"Brokers", "ItemsBrokers", "ItemsClusters"}
    /\ pc = "enumerate"
    /\ \/ /\ Called(1, 0, 0)
          /\ Raise("ProfileNotFound")
          /\ UNCHANGED <<brokers, listed>>
       \/ /\ Called(1, 1, 0)
          /\ Raise("ClientError")
          /\ UNCHANGED <<brokers, listed>>
       \/ \E cl \in ClusterLists : \E k \in 1..Len(cl) :
             /\ Called(1, 1 + k, 0)
             /\ Raise("ClientError")
             /\ UNCHANGED <<brokers, listed>>
       \/ \E cl \in ClusterLists : \E nodes \in NodeAnswers(cl) :
             /\ Called(1, 1 + Len(cl), 0)
             /\ brokers' = BuildBrokers(cl, nodes)
             /\ listed' = Listed(cl)
             /\ pc' = IF script = "ItemsBrokers" THEN "query" ELSE "filter"
             /\ UNCHANGED <<raised, exitcode>>
    /\ UNCHANGED <<response, inv, script, tools, clustername_filter, all_metrics_json, stdout, clusters,
                   error_msg, idx, log, files>>

\* The filter left out: every broker is kept.
FilterBrokers_M(bs, f) == bs

\* brokers = [broker for broker in brokers if broker['ClusterName'] == clustername_filter]
\* under "if clustername_filter:".
FilterBrokers(bs, f) ==
    IF Truthy(f) THEN SelectSeq(bs, LAMBDA b : b.ClusterName = f.s) ELSE bs

\* Brokers.py and ItemsClusters.py main: the filter and the empty check.
Filter ==
    /\ script \in {"Brokers", "ItemsClusters"}
    /\ pc = "filter"
    /\ brokers' = FilterBrokers(brokers, clustername_filter)
    /\ IF brokers' = <<>>
       THEN /\ stdout' = Append(stdout,
                IF script = "Brokers"
                THEN zbx_json_output("disc_AWSKafka_ItemsBrokers.py", Profile, "Kafka", 2, 0,
                        <<"No se encontraron brokers para el cluster '",
                          FilterText(clustername_filter), "'">>)
                ELSE zbx_json_output("disc_AWSKafka_ItemsClusters.py", Profile, "Kafka", 2, 0,
                        <<"No se encontraron clusters para el cluster '",
                          FilterText(clustername_filter), "'">>))
            /\ pc' = "done"
            /\ exitcode' = 0
       ELSE /\ pc' = "query"
            /\ UNCHANGED <<stdout, exitcode>>
    /\ UNCHANGED <<response, inv, script, tools, clustername_filter, listed, all_metrics_json, raised, calls,
                   clusters, error_msg, idx, log, files>>

\* Brokers.py and ItemsBrokers.py main: one pass of the loop over brokers
\* (get_broker_metrics, generate_metrics_json, append).
Query ==
    /\ script \in {"Brokers", "ItemsBrokers"}
    /\ pc = "query"
    /\ idx < Len(brokers)
    /\ \/ /\ Called(1, 0, 0)
          /\ Raise("ProfileNotFound")
          /\ UNCHANGED <<all_metrics_json, idx>>
       \/ /\ Called(1, 0, 1)
          /\ Raise("ClientError")
          /\ UNCHANGED <<all_metrics_json, idx>>
       \/ \E answer \in BrokerMetricAnswers :
             LET broker == brokers[idx + 1]
                 g == generate_metrics_json(answer, broker.ClusterName, broker.BrokerId,
                                            broker.BrokerName)
             IN /\ Called(1, 0, 1)
                /\ IF g.exc # ""
                   THEN /\ Raise(g.exc)
                        /\ UNCHANGED <<all_metrics_json, idx>>
                   ELSE /\ all_metrics_json' = Append(all_metrics_json, g.json)
                        /\ idx' = idx + 1
                        /\ UNCHANGED <<pc, raised, exitcode>>
    /\ UNCHANGED <<response, inv, script, tools, clustername_filter, listed, brokers, stdout, clusters, error_msg,
                   log, files>>

\* ItemsClusters.py main: one pass of the loop (get_cluster_metrics,
\* generate_metrics_json, append).
IC_Query ==
    /\ script = "ItemsClusters"
    /\ pc = "query"
    /\ idx < Len(brokers)
    /\ \/ /\ Called(1, 0, 0)
          /\ Raise("ProfileNotFound")
          /\ UNCHANGED <<all_metrics_json, idx>>
       \/ /\ Called(1, 0, 1)
          /\ Raise("ClientError")
          /\ UNCHANGED <<all_metrics_json, idx>>
       \/ \E answer \in ClusterMetricAnswers :
             LET g == generate_metrics_json_IC(answer, brokers[idx + 1].ClusterName)
             IN /\ Called(1, 0, 1)
                /\ IF g.exc # ""
                   THEN /\ Raise(g.exc)
                        /\ UNCHANGED <<all_metrics_json, idx>>
                   ELSE /\ all_metrics_json' = Append(all_metrics_json, g.json)
                        /\ idx' = idx + 1
                        /\ UNCHANGED <<pc, raised, exitcode>>
    /\ UNCHANGED <<response, inv, script, tools, clustername_filter, listed, brokers, stdout, clusters, error_msg,
                   log, files>>

\* Brokers.py main: the count loop and print_metrics_as_json.
PrintMetrics ==
    /\ script = "Brokers"
    /\ pc = "query"
    /\ idx = Len(brokers)
    /\ stdout' = Append(stdout, print_metrics_as_json(all_metrics_json, Profile))
    /\ pc' = "done"
    /\ exitcode' = 0
    /\ UNCHANGED <<response, inv, script, tools, clustername_filter, listed, brokers, all_metrics_json, raised,
                   calls, clusters, error_msg, idx, log, files>>

\* ItemsClusters.py main: the count loop and print_metrics_as_json.
IC_PrintMetrics ==
    /\ script = "ItemsClusters"
    /\ pc = "query"
    /\ idx = Len(brokers)
    /\ LET r == print_metrics_as_json_IC(all_metrics_json, Profile)
       IN IF r.exc # ""
          THEN /\ Raise(r.exc)
               /\ UNCHANGED stdout
          ELSE /\ stdout' = stdout \o r.lines
               /\ pc' = "done"
               /\ exitcode' = 0
               /\ UNCHANGED raised
    /\ UNCHANGED <<response, inv, script, tools, clustername_filter, listed, brokers, all_metrics_json, calls,
                   clusters, error_msg, idx, log, files>>

\* ItemsBrokers.py main: the count loop, zbx_json_output and print_metrics_as_json.
IB_PrintMetrics ==
    /\ script = "ItemsBrokers"
    /\ pc = "query"
    /\ idx = Len(brokers)
    /\ stdout' = stdout \o
          <<zbx_json_output_IB(Profile, "Kafka", <<"Metricas obtenidas con exito.">>, <<"0">>,
                               TotalPoints(all_metrics_json)),
            print_metrics_as_json_IB(all_metrics_json)>>
    /\ pc' = "savejson"
    /\ UNCHANGED <<response, inv, script, tools, clustername_filter, listed, brokers, all_metrics_json, exitcode,
                   raised, calls, clusters, error_msg, idx, log, files>>

\* ItemsBrokers.py save_metrics_to_csv: the header and one row per datapoint.
CsvRows_IB(all) ==
    <<<<"Namespace", "ClusterName", "BrokerName", "BrokerID", "MetricName", "Dimensions", "Value">>>>
    \o Concat([i \in 1..Len(all) |->
         Concat([k \in 1..Len(MetricOrder) |->
            [j \in 1..Len(all[i].Metrics[MetricOrder[k]]) |->
               LET value == StrFloat(all[i].Metrics[MetricOrder[k]][j].Average)
                   dimensions == <<"#NAMESPACE:", "Kafka", ":#CLUSTERNAME:", all[i].ClusterName,
                                   ":#BROKERNAME:", all[i].BrokerName,
                                   ":#BROKERID:", Str(all[i].BrokerId),
                                   ":#METRICNAME:", MetricOrder[k]>>
               IN <<"Kafka", all[i].ClusterName, all[i].BrokerName, Str(all[i].BrokerId),
                    MetricOrder[k], value, dimensions, value, "#METRICUNIT:%",
                    "#VALUETYPE:Average">>]])])

\* hostsClusters.py save_csv: the header and one row per datapoint.
CsvRows_HC(all) ==
    <<<<"Namespace", "MetricName", "Dimensions", "Value", "Sum">>>>
    \o Concat([i \in 1..Len(all) |->
         [j \in 1..Len(all[i].MetricsCluster.OfflinePartitionsCount) |->
            <<"AWS/Kafka", "OfflinePartitionsCount", "ClusterName", all[i].ClusterName,
              StrFloat(all[i].MetricsCluster.OfflinePartitionsCount[j].Sum)>>]])

\* json.dump(data, f, indent=4) of a list: the pieces it writes, in order.
JsonChunks(all) == <<[tok |-> "["]>> \o all \o <<[tok |-> "]"]>>

\* A file after open(filepath, 'w') and a complete write of chunks.
Written(chunks) == [exists |-> TRUE, content |-> chunks]

\* A file after open(filepath, 'w') truncated it and a write failed (disk
\* full, I/O error) before the last chunk: any proper prefix, the empty one included.
PartialWrites(chunks) == {Written(SubSeq(chunks, 1, n)) : n \in 0..(Len(chunks) - 1)}

\* with open(filepath, 'w') as f: <write chunks>, when it fails: either open
\* raised and the file is as it was, or a write raised and the file is partial.
FailedWrites(file, chunks) == {file} \cup PartialWrites(chunks)

\* ItemsBrokers.py main: save_json_to_file; main catches nothing.
IB_SaveJson ==
    /\ script = "ItemsBrokers"
    /\ pc = "savejson"
    /\ \/ /\ files' = [files EXCEPT !.json = Written(JsonChunks(all_metrics_json))]
          /\ pc' = "savecsv"
          /\ UNCHANGED <<raised, exitcode>>
       \/ \E f \in FailedWrites(files.json, JsonChunks(all_metrics_json)) :
             /\ files' = [files EXCEPT !.json = f]
             /\ Raise("OSError")
    /\ UNCHANGED <<response, inv, script, tools, clustername_filter, listed, brokers, all_metrics_json, stdout,
                   calls, clusters, error_msg, idx, log>>

\* ItemsBrokers.py main: save_metrics_to_csv, the last statement of main.
IB_SaveCsv_M ==
    /\ script = "ItemsBrokers"
    /\ pc = "savecsv"
    /\ \/ /\ files' = [files EXCEPT !.csv = Written(CsvRows_IB(all_metrics_json))]
          /\ pc' = "done"
          /\ exitcode' = 0
          /\ UNCHANGED raised
       \/ \E f \in FailedWrites(files.csv, CsvRows_IB(all_metrics_json)) :
             /\ files' = [json |-> NoFile, csv |-> NoFile]
             /\ Raise("OSError")
    /\ UNCHANGED <<response, inv, script, tools, clustername_filter, listed, brokers, all_metrics_json, stdout,
                   calls, clusters, error_msg, idx, log>>

IB_SaveCsv ==
    /\ script = "ItemsBrokers"
    /\ pc = "savecsv"
    /\ \/ /\ files' = [files EXCEPT !.csv = Written(CsvRows_IB(all_metrics_json))]
          /\ pc' = "done"
          /\ exitcode' = 0
          /\ UNCHANGED raised
       \/ \E f \in FailedWrites(files.csv, CsvRows_IB(all_metrics_json)) :
             /\ files' = [files EXCEPT !.csv = f]
             /\ Raise("OSError")
    /\ UNCHANGED <<response, inv, script, tools, clustername_filter, listed, brokers, all_metrics_json, stdout,
                   calls, clusters, error_msg, idx, log>>

\* hostsClusters.py get_cluster_names.
HC_GetClusterNames ==
    /\ script = "hostsClusters"
    /\ pc = "enumerate"
    /\ \/ /\ Called(1, 0, 0)
          /\ Raise("ProfileNotFound")
          /\ UNCHANGED <<clusters, listed>>
       \/ /\ Called(1, 1, 0)
          /\ Raise("ClientError")
          /\ UNCHANGED <<clusters, listed>>
       \/ \E cl \in ClusterLists :
             /\ Called(1, 1, 0)
             /\ clusters' = [none |-> FALSE, list |-> cl]
             /\ listed' = Listed(cl)
             /\ pc' = "query"
             /\ UNCHANGED <<raised, exitcode>>
    /\ UNCHANGED <<response, inv, script, tools, clustername_filter, brokers, all_metrics_json, stdout,
                   error_msg, idx, log, files>>

\* hostsClusters.py get_cluster_brokers: the list it builds from list_nodes.
get_cluster_brokers(cluster, nodes) ==
    [i \in 1..nodes |-> [BrokerID |-> i, BrokerName |-> Endpoint(cluster, i)]]

\* hostsClusters.py main: one pass of the loop over cluster_names
\* (get_cluster_arn lists the clusters again).
HC_Cluster ==
    /\ script = "hostsClusters"
    /\ pc = "query"
    /\ idx < Len(clusters.list)
    /\ LET cluster_name == clusters.list[idx + 1]
       IN \/ \E f \in {<<1, 0, 0, "ProfileNotFound">>, <<1, 1, 0, "ClientError">>,
                       <<2, 1, 1, "ClientError">>, <<3, 2, 1, "ClientError">>} :
                /\ Called(f[1], f[2], f[3])
                /\ Raise(f[4])
                /\ UNCHANGED <<all_metrics_json, idx, stdout, log>>
          \/ \E again \in ClusterLists :
                /\ \A k \in 1..Len(again) : again[k] # cluster_name
                /\ Called(1, 1, 0)
                /\ stdout' = Append(stdout,
                      TextLine(<<"No se pudo obtener el ARN del cluster: ", cluster_name>>))
                /\ log' = LogLine(<<"No se pudo obtener el ARN del cluster: ", cluster_name>>)
                /\ idx' = idx + 1
                /\ UNCHANGED <<all_metrics_json, pc, raised, exitcode>>
          \/ \E answer \in ClusterMetricAnswers : \E nodes \in 0..MaxBrokers :
                LET g == generate_metrics_json_HC(answer, cluster_name,
                                                  get_cluster_brokers(cluster_name, nodes))
                IN /\ Called(3, 2, 1)
                   /\ IF g.exc # ""
                      THEN /\ Raise(g.exc)
                           /\ UNCHANGED <<all_metrics_json, idx, log>>
                      ELSE /\ all_metrics_json' = Append(all_metrics_json, g.json)
                           /\ log' = LogLine(<<"Metricas obtenidas para el cluster: ", cluster_name>>)
                           /\ idx' = idx + 1
                           /\ UNCHANGED <<pc, raised, exitcode>>
                   /\ UNCHANGED stdout
    /\ UNCHANGED <<response, inv, script, tools, clustername_filter, listed, brokers, clusters, error_msg, files>>

\* hostsClusters.py main: print(json.dumps(all_metrics_json, indent=4)).
HC_Print ==
    /\ script = "hostsClusters"
    /\ pc = "query"
    /\ idx = Len(clusters.list)
    /\ stdout' = Append(stdout, ArrayLine(all_metrics_json))
    /\ pc' = "savejson"
    /\ UNCHANGED <<response, inv, script, tools, clustername_filter, listed, brokers, all_metrics_json, exitcode,
                   raised, calls, clusters, error_msg, idx, log, files>>

\* hostsClusters.py main: save_json_to_file and its log line.
HC_SaveJson ==
    /\ script = "hostsClusters"
    /\ pc = "savejson"
    /\ \/ /\ files' = [files EXCEPT !.json = Written(JsonChunks(all_metrics_json))]
          /\ log' = LogLine(<<"Datos JSON guardados en ", "queries.json">>)
          /\ pc' = "savecsv"
          /\ UNCHANGED <<raised, exitcode>>
       \/ \E f \in FailedWrites(files.json, JsonChunks(all_metrics_json)) :
             /\ files' = [files EXCEPT !.json = f]
             /\ Raise("OSError")
             /\ UNCHANGED log
    /\ UNCHANGED <<response, inv, script, tools, clustername_filter, listed, brokers, all_metrics_json, stdout,
                   calls, clusters, error_msg, idx>>

\* hostsClusters.py main: save_csv and its log line, the last statements of main.
HC_SaveCsv ==
    /\ script = "hostsClusters"
    /\ pc = "savecsv"
    /\ \/ /\ files' = [files EXCEPT !.csv = Written(CsvRows_HC(all_metrics_json))]
          /\ log' = LogLine(<<"Datos CSV guardados en ", "metrics.csv">>)
          /\ pc' = "done"
          /\ exitcode' = 0
          /\ UNCHANGED raised
       \/ \E f \in FailedWrites(files.csv, CsvRows_HC(all_metrics_json)) :
             /\ files' = [files EXCEPT !.csv = f]
             /\ Raise("OSError")
             /\ UNCHANGED log
    /\ UNCHANGED <<response, inv, script, tools, clustername_filter, listed, brokers, all_metrics_json, stdout,
                   calls, clusters, error_msg, idx>>

\* host_cluster_test.py get_kafka_clusters: only list_clusters is inside the try.
T_GetKafkaClusters ==
    /\ script = "host_cluster_test"
    /\ pc = "enumerate"
    /\ \/ /\ Called(1, 0, 0)
          /\ Raise("ProfileNotFound")
          /\ UNCHANGED <<clusters, error_msg, listed>>
       \/ /\ Called(1, 1, 0)
          /\ clusters' = [none |-> TRUE, list |-> <<>>]
          /\ error_msg' = <<"Error obteniendo clusters: ", ErrText>>
          /\ UNCHANGED listed
          /\ pc' = "filter"
          /\ UNCHANGED <<raised, exitcode>>
       \/ \E cl \in ClusterLists :
             /\ Called(1, 1, 0)
             /\ IF cl = <<>>
                THEN /\ clusters' = [none |-> TRUE, list |-> <<>>]
                     /\ error_msg' = <<"No se encontraron clusters disponibles.">>
                ELSE /\ clusters' = [none |-> FALSE, list |-> cl]
                     /\ error_msg' = <<>>
             /\ listed' = Listed(cl)
             /\ pc' = "filter"
             /\ UNCHANGED <<raised, exitcode>>
    /\ UNCHANGED <<response, inv, script, tools, clustername_filter, brokers, all_metrics_json, stdout,
                   idx, log, files>>

\* clusters = [cluster for cluster in clusters if cluster == clustername_filter]
\* under "if clustername_filter and clusters:".
FilterClusters(cl, f) ==
    IF Truthy(f) /\ ~cl.none /\ cl.list # <<>>
    THEN [none |-> FALSE, list |-> SelectSeq(cl.list, LAMBDA c : c = f.s)]
    ELSE cl

\* host_cluster_test.py main: the filter and print_clusters_as_json.
T_FilterPrint ==
    /\ script = "host_cluster_test"
    /\ pc = "filter"
    /\ clusters' = FilterClusters(clusters, clustername_filter)
    /\ stdout' = Append(stdout, print_clusters_as_json(clusters', Profile, error_msg))
    /\ pc' = "done"
    /\ exitcode' = 0
    /\ UNCHANGED <<response, inv, script, tools, clustername_filter, listed, brokers, all_metrics_json, raised,
                   calls, error_msg, idx, log, files>>

Next ==
    \/ CheckCommands
    \/ HC_OpenLog
    \/ HC_CheckCommands
    \/ GetKafkaBrokers
    \/ Filter
    \/ Query
    \/ IC_Query
    \/ PrintMetrics
    \/ IC_PrintMetrics
    \/ IB_PrintMetrics
    \/ IB_SaveJson
    \/ IB_SaveCsv
    \/ HC_GetClusterNames
    \/ HC_Cluster
    \/ HC_Print
    \/ HC_SaveJson
    \/ HC_SaveCsv
    \/ T_GetKafkaClusters
    \/ T_FilterPrint

Spec == Init /\ [][Next]_vars

\* ----------------------------------------- the broker path on arbitrary names
\* Brokers.py after enumeration and filter left one broker, whose endpoint is
\* any string of at most MaxNameLen characters.
NameStrings == SeqsUpTo(NameChars, MaxNameLen)

InitFmt ==
    /\ script = "Brokers"
    /\ tools = {"aws", "jq"}
    /\ clustername_filter = NoFilter
    /\ pc = "query"
    /\ \E name \in NameStrings :
          brokers = <<[ClusterName |-> "c1", BrokerId |-> 1, BrokerName |-> name]>>
    /\ all_metrics_json = <<>>
    /\ stdout = <<>>
    /\ exitcode = -1
    /\ raised = ""
    /\ calls = [session |-> 1, kafka |-> 2, cloudwatch |-> 0]
    /\ clusters = NoClusters
    /\ error_msg = <<>>
    /\ idx = 0
    /\ log = NoFile
    /\ files = [json |-> NoFile, csv |-> NoFile]
    /\ listed = Listed(<<"c1">>)
    /\ response = NoResponse
    /\ inv = <<>>

NextFmt == Query \/ PrintMetrics

SpecFmt == InitFmt /\ [][NextFmt]_vars

\* ------------------------------------- generate_metrics_json on any response
\* One MetricDataResults entry as CloudWatch could hand it over, well formed or
\* not: any id, and timestamp and value lists of independent lengths.
GenScripts == {"Brokers", "ItemsBrokers", "ItemsClusters", "hostsClusters"}
GenIds == {"cpuUser", "offlinePartitionsCount", "m9"}
GenValues == {3, 8}
GenResults ==
    {[Id |-> id, Timestamps |-> Stamps(n), Values |-> vals] :
        id \in GenIds, n \in 0..MaxPoints, vals \in SeqsUpTo(GenValues, MaxPoints)}

\* generate_metrics_json of the running script, on the response.
Generated ==
    CASE script \in {"Brokers", "ItemsBrokers"} ->
            generate_metrics_json(response, "c1", 1, Endpoint("c1", 1))
      [] script = "ItemsClusters" -> generate_metrics_json_IC(response, "c1")
      [] OTHER -> generate_metrics_json_HC(response, "c1", get_cluster_brokers("c1", 1))

InitGen ==
    /\ script \in GenScripts
    /\ tools = {"aws", "jq"}
    /\ clustername_filter = NoFilter
    /\ pc = "generate"
    /\ brokers = <<>>
    /\ all_metrics_json = <<>>
    /\ stdout = <<>>
    /\ exitcode = -1
    /\ raised = ""
    /\ calls = [session |-> 1, kafka |-> 2, cloudwatch |-> 1]
    /\ clusters = NoClusters
    /\ error_msg = <<>>
    /\ idx = 0
    /\ log = NoFile
    /\ files = [json |-> NoFile, csv |-> NoFile]
    /\ listed = Listed(<<"c1">>)
    /\ \E r \in GenResults : response = [MetricDataResults |-> <<r>>]
    /\ inv = <<>>

\* The call metrics_json = generate_metrics_json(...) and the append that follows it.
Generate ==
    /\ pc = "generate"
    /\ IF Generated.exc # ""
       THEN /\ Raise(Generated.exc)
            /\ UNCHANGED all_metrics_json
       ELSE /\ all_metrics_json' = Append(all_metrics_json, Generated.json)
            /\ pc' = "generated"
            /\ UNCHANGED <<raised, exitcode>>
    /\ UNCHANGED <<response, inv, script, tools, clustername_filter, listed, brokers, stdout,
                   calls, clusters, error_msg, idx, log, files>>

NextGen == Generate

SpecGen == InitGen /\ [][NextGen]_vars

\* ------------------------------------ two invocations saving at the same time
\* Two runs of one persisting script with the same profile, hence the same
\* output paths. Each has printed its document and is about to save it; each
\* holds its own all_metrics_json, open file object and file position. (The
\* log lines of hostsClusters.py go to a third file, opened for append.)
RaceScripts == {"ItemsBrokers", "hostsClusters"}
Invocations == {1, 2}

\* The documents a finished query loop can hold.
RaceDocuments(s) ==
    IF s = "ItemsBrokers"
    THEN {[i \in 1..n |->
             generate_metrics_json(
                [MetricDataResults |-> <<Result("cpuUser", <<>>),
                                         Result("kafkaDataLogsDiskUsed", <<>>),
                                         Result("offlinePartitionsCount", <<v>>)>>],
                "c1", i, Endpoint("c1", i)).json] :
            n \in 0..MaxBrokers, v \in ValuesOf("offlinePartitionsCount")}
    ELSE {[k \in 1..Len(cl) |->
             generate_metrics_json_HC(
                [MetricDataResults |-> <<Result("offlinePartitionsCount", <<v>>)>>],
                cl[k], get_cluster_brokers(cl[k], 1)).json] :
            cl \in ClusterLists, v \in ValuesOf("offlinePartitionsCount")}

\* What the data written through one file object replaces: the chunks from
\* its own position on; a gap left by the other run's truncation reads as NUL.
Overlay(content, off, data, hole) ==
    LET last == IF Len(content) > off + Len(data) THEN Len(content) ELSE off + Len(data)
    IN [i \in 1..last |->
          IF i > off /\ i <= off + Len(data) THEN data[i - off]
          ELSE IF i <= Len(content) THEN content[i]
          ELSE hole]

JsonHole == [tok |-> "NUL"]
CsvHole == <<"NUL">>

JsonOf(p) == JsonChunks(inv[p].all)
CsvOf(p) == IF script = "ItemsBrokers" THEN CsvRows_IB(inv[p].all) ELSE CsvRows_HC(inv[p].all)

InitRace ==
    /\ script \in RaceScripts
    /\ tools = {"aws", "jq"}
    /\ clustername_filter = NoFilter
    /\ pc = "savejson"
    /\ brokers = <<>>
    /\ all_metrics_json = <<>>
    /\ stdout = <<>>
    /\ exitcode = -1
    /\ raised = ""
    /\ calls = [session |-> 0, kafka |-> 0, cloudwatch |-> 0]
    /\ clusters = NoClusters
    /\ error_msg = <<>>
    /\ idx = 0
    /\ log = NoFile
    /\ files = [json |-> NoFile, csv |-> NoFile]
    /\ listed = NotListed
    /\ response = NoResponse
    /\ \E d1 \in RaceDocuments(script) : \E d2 \in RaceDocuments(script) :
          inv = [p \in Invocations |->
                   [pc |-> "savejson", all |-> IF p = 1 THEN d1 ELSE d2, off |-> 0]]

RaceUnchanged ==
    UNCHANGED <<response, script, tools, clustername_filter, listed, brokers, all_metrics_json,
                stdout, exitcode, raised, calls, clusters, error_msg, idx, log, pc>>

\* save_json_to_file: with open(filepath, 'w') as f -- after the lock a
\* coordinated writer would take: nobody else has the file open.
OpenJson_M(p) ==
    /\ inv[p].pc = "savejson"
    /\ \A q \in Invocations : inv[q].pc # "writejson"
    /\ files' = [files EXCEPT !.json = Written(<<>>)]
    /\ inv' = [inv EXCEPT ![p].pc = "writejson", ![p].off = 0]
    /\ RaceUnchanged

\* save_json_to_file: with open(filepath, 'w') as f -- creates or truncates.
OpenJson(p) ==
    /\ inv[p].pc = "savejson"
    /\ files' = [files EXCEPT !.json = Written(<<>>)]
    /\ inv' = [inv EXCEPT ![p].pc = "writejson", ![p].off = 0]
    /\ RaceUnchanged

\* save_json_to_file: json.dump(data, f, indent=4) -- the buffer is flushed
\* to the file in one or more writes, the last one when the with block closes f.
WriteJson(p) ==
    /\ inv[p].pc = "writejson"
    /\ \E k \in 1..(Len(JsonOf(p)) - inv[p].off) :
          LET upto == inv[p].off + k
          IN /\ files' = [files EXCEPT !.json.content =
                            Overlay(@, inv[p].off, SubSeq(JsonOf(p), inv[p].off + 1, upto),
                                    JsonHole)]
             /\ inv' = [inv EXCEPT ![p].off = upto,
                                   ![p].pc = IF upto = Len(JsonOf(p)) THEN "savecsv" ELSE @]
    /\ RaceUnchanged

\* save_metrics_to_csv / save_csv: with open(filepath, 'w', newline='') as csvfile.
OpenCsv(p) ==
    /\ inv[p].pc = "savecsv"
    /\ files' = [files EXCEPT !.csv = Written(<<>>)]
    /\ inv' = [inv EXCEPT ![p].pc = "writecsv", ![p].off = 0]
    /\ RaceUnchanged

\* save_metrics_to_csv / save_csv: the writerow calls, flushed in one or more writes.
WriteCsv(p) ==
    /\ inv[p].pc = "writecsv"
    /\ \E k \in 1..(Len(CsvOf(p)) - inv[p].off) :
          LET upto == inv[p].off + k
          IN /\ files' = [files EXCEPT !.csv.content =
                            Overlay(@, inv[p].off, SubSeq(CsvOf(p), inv[p].off + 1, upto),
                                    CsvHole)]
             /\ inv' = [inv EXCEPT ![p].off = upto,
                                   ![p].pc = IF upto = Len(CsvOf(p)) THEN "done" ELSE @]
    /\ RaceUnchanged

NextRace ==
    \E p \in Invocations :
        \/ OpenJson(p)
        \/ WriteJson(p)
        \/ OpenCsv(p)
        \/ WriteCsv(p)

SpecRace == InitRace /\ [][NextRace]_vars

\* ------------------------------------ hostsClusters.py invocations of one day
\* Invocations of hostsClusters.py on one host and one day, hence with one log
\* file: at most two run at the same time, a new one may start where an
\* earlier one has ended. Of each invocation only what reaches the log is
\* kept: its position, the lines it has written, its rank among the starts,
\* whether it started while no other was running, the clusters still to do.
NotStarted == [pc |-> "idle", lines |-> <<>>, start |-> 0, alone |-> TRUE, todo |-> <<>>]
Running(p) == inv[p].pc \notin {"idle", "done", "exit", "raised"}
Runs == IF inv[1].start > inv[2].start THEN inv[1].start ELSE inv[2].start
LogHole == <<"NUL">>

InitLog ==
    /\ script = "hostsClusters"
    /\ tools \in SUBSET {"aws", "jq"}
    /\ clustername_filter = NoFilter
    /\ pc = "openlog"
    /\ brokers = <<>>
    /\ all_metrics_json = <<>>
    /\ stdout = <<>>
    /\ exitcode = -1
    /\ raised = ""
    /\ calls = [session |-> 0, kafka |-> 0, cloudwatch |-> 0]
    /\ clusters = NoClusters
    /\ error_msg = <<>>
    /\ idx = 0
    /\ log = NoFile
    /\ files = [json |-> NoFile, csv |-> NoFile]
    /\ listed = NotListed
    /\ response = NoResponse
    /\ inv = [p \in Invocations |-> NotStarted]

LogUnchanged ==
    UNCHANGED <<response, script, tools, clustername_filter, listed, brokers, all_metrics_json,
                stdout, exitcode, raised, calls, clusters, error_msg, idx, files, pc>>

\* log_message of invocation p: open(log_file, 'a'), one line, close.
log_message(p, message, next, todo) ==
    /\ log' = LogLine(message)
    /\ inv' = [inv EXCEPT ![p].lines = Append(@, message), ![p].pc = next, ![p].todo = todo]

\* The start of main with open(log_file, 'a') for open(log_file, 'w').
LogOpen_M(p) ==
    /\ ~Running(p)
    /\ Runs < MaxRuns
    /\ log' = Written(log.content)
    /\ inv' = [inv EXCEPT ![p] = [pc |-> "inicio", lines |-> <<>>, start |-> Runs + 1,
                                  alone |-> \A q \in Invocations : ~Running(q),
                                  todo |-> <<>>]]
    /\ LogUnchanged

\* A new invocation, up to main's open(log_file, 'w'): the log is created or truncated.
LogOpen(p) ==
    /\ ~Running(p)
    /\ Runs < MaxRuns
    /\ log' = Written(<<>>)
    /\ inv' = [inv EXCEPT ![p] = [pc |-> "inicio", lines |-> <<>>, start |-> Runs + 1,
                                  alone |-> \A q \in Invocations : ~Running(q),
                                  todo |-> <<>>]]
    /\ LogUnchanged

\* main: log.write('... - Inicio del script') and the end of the with block;
\* the line goes to the start of the file, over what was appended there since
\* the open (line by line here, byte by byte in the file).
LogInicio(p) ==
    /\ inv[p].pc = "inicio"
    /\ log' = [log EXCEPT !.content = Overlay(@, 0, <<<<"Inicio del script">>>>, LogHole)]
    /\ inv' = [inv EXCEPT ![p].lines = <<<<"Inicio del script">>>>, ![p].pc = "check"]
    /\ LogUnchanged

\* main: if not check_commands(): log_message(...); exit(1)
LogCheckCommands(p) ==
    /\ inv[p].pc = "check"
    /\ IF check_commands(tools)
       THEN /\ inv' = [inv EXCEPT ![p].pc = "enumerate"]
            /\ UNCHANGED log
       ELSE /\ log' = [exists |-> TRUE,
                       content |-> log.content \o
                           <<<<"No se encontro el comando ", FirstMissing(tools)>>,
                             <<"Error: Comandos necesarios no encontrados.">>>>]
            /\ inv' = [inv EXCEPT ![p].pc = "exit",
                                  ![p].lines = @ \o
                                      <<<<"No se encontro el comando ", FirstMissing(tools)>>,
                                        <<"Error: Comandos necesarios no encontrados.">>>>]
    /\ LogUnchanged

\* main: cluster_names = get_cluster_names(awprofile), which catches nothing.
LogGetClusterNames(p) ==
    /\ inv[p].pc = "enumerate"
    /\ \/ inv' = [inv EXCEPT ![p].pc = "raised"]
       \/ \E cl \in ClusterLists : inv' = [inv EXCEPT ![p].pc = "query", ![p].todo = cl]
    /\ UNCHANGED log
    /\ LogUnchanged

\* main: one pass of the loop over cluster_names, as far as the log goes.
LogCluster(p) ==
    /\ inv[p].pc = "query"
    /\ inv[p].todo # <<>>
    /\ LET cluster_name == Head(inv[p].todo)
       IN \/ /\ inv' = [inv EXCEPT ![p].pc = "raised"]
             /\ UNCHANGED log
          \/ log_message(p, <<"No se pudo obtener el ARN del cluster: ", cluster_name>>,
                         "query", Tail(inv[p].todo))
          \/ log_message(p, <<"Metricas obtenidas para el cluster: ", cluster_name>>,
                         "query", Tail(inv[p].todo))
    /\ LogUnchanged

\* main: the print, save_json_to_file and its log line.
LogSaveJson(p) ==
    /\ inv[p].pc = "query"
    /\ inv[p].todo = <<>>
    /\ \/ /\ inv' = [inv EXCEPT ![p].pc = "raised"]
          /\ UNCHANGED log
       \/ log_message(p, <<"Datos JSON guardados en ", "queries.json">>, "savecsv", <<>>)
    /\ LogUnchanged

\* main: save_csv and its log line.
LogSaveCsv(p) ==
    /\ inv[p].pc = "savecsv"
    /\ \/ /\ inv' = [inv EXCEPT ![p].pc = "raised"]
          /\ UNCHANGED log
       \/ log_message(p, <<"Datos CSV guardados en ", "metrics.csv">>, "done", <<>>)
    /\ LogUnchanged

NextLog ==
    \E p \in Invocations :
        \/ LogOpen(p)
        \/ LogInicio(p)
        \/ LogCheckCommands(p)
        \/ LogGetClusterNames(p)
        \/ LogCluster(p)
        \/ LogSaveJson(p)
        \/ LogSaveCsv(p)

SpecLog == InitLog /\ [][NextLog]_vars

\* ================================================================ properties
IsData(l) == l.kind = "json" /\ l.shape = "data"
IsStatus(row) == "INFO" \in DOMAIN row
JsonLines == {i \in 1..Len(stdout) : stdout[i].kind = "json"}
DataLines == {i \in 1..Len(stdout) : IsData(stdout[i])}
\* The rows of a data array that are not status objects.
DataRows(l) == SelectSeq(l.data, LAMBDA row : ~IsStatus(row))
ToolMissing == \E cmd \in {"aws", "jq"} : cmd \notin tools
NoAwsCall == calls.session = 0 /\ calls.kafka = 0 /\ calls.cloudwatch = 0
ListedNames == {listed.names[k] : k \in 1..Len(listed.names)}
FilterMatchesNone == clustername_filter.s \notin ListedNames
\* The one line of a run that printed exactly one data array with only a
\* status row, and that row says exit "2".
OnlyStatusExit2 ==
    /\ Len(stdout) = 1
    /\ IsData(stdout[1])
    /\ Len(stdout[1].data) = 1
    /\ IsStatus(stdout[1].data[1])
    /\ stdout[1].data[1].EXIT = <<"2">>

\* C1: in Brokers.py, whenever print_metrics_as_json has printed, the
\* REGISTROS of data[0] is the number of elements that follow data[0].
C1_RegistrosEqualsRowCount ==
    (script = "Brokers" /\ pc = "done" /\ brokers # <<>>) =>
        \A i \in DataLines :
            stdout[i].data[1].REGISTROS = Str(Len(stdout[i].data) - 1)

\* C2 as stated: in the three scripts with a cluster-name filter, once
\* enumeration succeeded with a filter given that names no enumerated
\* cluster, no CloudWatch query is issued, and the finished run has printed
\* one status row with EXIT "2" and nothing after it.
C2_GivenFilterNoMatchExit2 ==
    (script \in FilterScripts /\ listed.ok /\ clustername_filter.given /\ FilterMatchesNone) =>
        /\ calls.cloudwatch = 0
        /\ pc \in {"done", "raised"} => OnlyStatusExit2

\* C2 amended: the same for a filter that is a non-empty string (an empty
\* string is treated as no filter).
C2_NonEmptyFilterNoMatchExit2 ==
    (script \in FilterScripts /\ listed.ok /\ clustername_filter.given
        /\ clustername_filter.s # "" /\ FilterMatchesNone) =>
        /\ calls.cloudwatch = 0
        /\ pc \in {"done", "raised"} => OnlyStatusExit2

\* A finished Brokers.py run whose non-empty filter names none of the
\* clusters that were listed.
C2_Witness ==
    /\ script = "Brokers"
    /\ pc = "done"
    /\ listed.ok /\ listed.names # <<>>
    /\ clustername_filter.given /\ clustername_filter.s # "" /\ FilterMatchesNone
    /\ OnlyStatusExit2

\* The offlinePartitionsCount samples of the brokers of cluster c, added up.
OfflineTotal(c) ==
    SumSeq([i \in 1..Len(all_metrics_json) |->
              IF all_metrics_json[i].ClusterName = c
              THEN SumSeq(Averages(all_metrics_json[i].Metrics["offlinePartitionsCount"]))
              ELSE 0])

\* C3: in Brokers.py and ItemsBrokers.py, the printed data array has, for each
\* cluster with an OfflinePartitionsCount sample, exactly one row keyed by the
\* cluster name alone that carries the sum of the samples, and no row with a
\* BROKERID or BROKERNAME is an offlinePartitionsCount row.
C3_OfflineSummedPerCluster ==
    (script \in {"Brokers", "ItemsBrokers"} /\ DataLines # {}) =>
        \A i \in DataLines :
            LET rows == DataRows(stdout[i])
                offline == {k \in 1..Len(rows) : rows[k].METRICNAME = "offlinePartitionsCount"}
            IN /\ \A k \in offline : DOMAIN rows[k] \cap {"BROKERID", "BROKERNAME"} = {}
               /\ \A b \in 1..Len(all_metrics_json) :
                     all_metrics_json[b].Metrics["offlinePartitionsCount"] # <<>> =>
                        /\ Cardinality({k \in offline :
                              rows[k].CLUSTERNAME = all_metrics_json[b].ClusterName}) = 1
                        /\ \A k \in offline :
                              rows[k].CLUSTERNAME = all_metrics_json[b].ClusterName =>
                                 rows[k].VALUE =
                                    Fmt2f(Round2(OfflineTotal(all_metrics_json[b].ClusterName)))

\* C4: in host_cluster_test.py, when list_clusters raised, the run ends
\* normally having printed one data array whose only element is a status row
\* with EXIT "1" and a MSG that contains the exception text.
C4_ListClustersErrorExit1 ==
    (script = "host_cluster_test" /\ ~listed.ok /\ calls.kafka > 0 /\ pc # "filter") =>
        /\ pc = "done" /\ raised = ""
        /\ Len(stdout) = 1
        /\ IsData(stdout[1])
        /\ Len(stdout[1].data) = 1
        /\ stdout[1].data[1].EXIT = <<"1">>
        /\ \E k \in 1..Len(stdout[1].data[1].MSG) : stdout[1].data[1].MSG[k] = ErrText

\* C5: in the scripts that call check_commands, with 'aws' or 'jq' missing no
\* AWS call is ever made and no JSON is ever printed, and once the check has
\* run the process has ended with exit code 1.
C5_MissingToolExits1 ==
    (script \in {"host_cluster_test", "ItemsBrokers", "hostsClusters"} /\ ToolMissing) =>
        /\ NoAwsCall
        /\ JsonLines = {}
        /\ pc \notin {"check", "openlog"} => (pc = "exit" /\ exitcode = 1)

\* A checking script that has exited because only 'jq' is missing.
C5_Witness ==
    /\ script \in {"host_cluster_test", "ItemsBrokers", "hostsClusters"}
    /\ tools = {"aws"}
    /\ pc = "exit"
    /\ exitcode = 1

\* C6: Brokers.py and ItemsClusters.py check for 'aws' and 'jq' on every run:
\* with either missing no AWS call is made, no JSON is printed and the run
\* ends with exit code 1.
C6_UncheckedScriptsExit1 ==
    (script \in {"Brokers", "ItemsClusters"} /\ ToolMissing) =>
        /\ NoAwsCall
        /\ JsonLines = {}
        /\ pc \in {"done", "raised", "exit"} => exitcode = 1

\* C7: ItemsClusters.py, with a broker left after the filter and every AWS
\* call answered, ends without an exception having printed one data array:
\* a status row followed by the offlinePartitionsCount row of each cluster.
C7_ItemsClustersPrints ==
    (script = "ItemsClusters" /\ listed.ok /\ brokers # <<>> /\ idx = Len(brokers)
        /\ pc \in {"done", "raised"}) =>
        /\ pc = "done" /\ raised = ""
        /\ Len(stdout) = 1
        /\ IsData(stdout[1])
        /\ IsStatus(stdout[1].data[1])
        /\ \A b \in 1..Len(brokers) :
              \E k \in 2..Len(stdout[1].data) :
                 /\ stdout[1].data[k].CLUSTERNAME = brokers[b].ClusterName
                 /\ stdout[1].data[k].CLUSTERMETRIC = "offlinePartitionsCount"

\* C8: in host_cluster_test.py every finished run has printed one data array
\* whose REGISTROS is the number of rows after data[0], all of them cluster
\* rows, and whose EXIT is "0" exactly when there is at least one such row.
C8_ClusterCountAndExit ==
    (script = "host_cluster_test" /\ pc = "done") =>
        /\ Len(stdout) = 1
        /\ IsData(stdout[1])
        /\ IsStatus(stdout[1].data[1])
        /\ \A k \in 2..Len(stdout[1].data) :
              ~IsStatus(stdout[1].data[k]) /\ "CLUSTERNAME" \in DOMAIN stdout[1].data[k]
        /\ stdout[1].data[1].REGISTROS = Str(Len(stdout[1].data) - 1)
        /\ (stdout[1].data[1].EXIT = <<"0">>) <=> (Len(stdout[1].data) - 1 >= 1)

\* A finished host_cluster_test.py run with a filter that kept one of two
\* listed clusters.
C8_Witness ==
    /\ script = "host_cluster_test"
    /\ pc = "done"
    /\ Len(listed.names) = 2
    /\ Truthy(clustername_filter)
    /\ Len(stdout) = 1
    /\ Len(stdout[1].data) = 2

\* The positions of the dots of a name.
Dots(name) == {i \in 1..Len(name) : name[i] = "."}
\* The name up to its second dot when it has three or more dot-separated
\* segments (two or more dots), else the whole name.
FirstTwoSegments(name) ==
    IF Cardinality(Dots(name)) >= 2
    THEN LET second == CHOOSE i \in Dots(name) : Cardinality({j \in Dots(name) : j < i}) = 1
         IN SubSeq(name, 1, second - 1)
    ELSE name

\* C9: every BROKERNAME Brokers.py prints is the raw endpoint of that broker
\* cut to its first two dot-separated segments when it has three or more,
\* and the raw endpoint itself otherwise.
C9_BrokerNameFirstTwoSegments ==
    script = "Brokers" =>
        \A i \in DataLines : \A k \in 1..Len(stdout[i].data) :
            "BROKERNAME" \in DOMAIN stdout[i].data[k] =>
                \E b \in 1..Len(brokers) :
                    /\ stdout[i].data[k].CLUSTERNAME = brokers[b].ClusterName
                    /\ stdout[i].data[k].BROKERID = Str(brokers[b].BrokerId)
                    /\ stdout[i].data[k].BROKERNAME = FirstTwoSegments(brokers[b].BrokerName)

\* Brokers.py has printed a broker row whose name was cut: the raw endpoint
\* has an empty second segment and a third one.
C9_Witness ==
    /\ script = "Brokers"
    /\ pc = "done"
    /\ brokers[1].BrokerName = <<"b", ".", ".", "b">>
    /\ \E i \in DataLines : \E k \in 1..Len(stdout[i].data) :
          /\ "BROKERNAME" \in DOMAIN stdout[i].data[k]
          /\ stdout[i].data[k].BROKERNAME = <<"b", ".">>

Digits == {"0", "1", "2", "3", "4", "5", "6", "7", "8", "9"}
\* A string of digits, a point, and exactly two digits.
TwoDecimals(v) ==
    /\ Len(v) >= 4
    /\ v[Len(v) - 2] = "."
    /\ \A j \in 1..Len(v) : j # Len(v) - 2 => v[j] \in Digits

\* C10: in Brokers.py and ItemsBrokers.py every printed row whose VALUETYPE
\* is "Average" has a VALUE with exactly two digits after the decimal point.
C10_AverageValuesTwoDecimals ==
    script \in {"Brokers", "ItemsBrokers"} =>
        \A i \in DataLines : \A k \in 1..Len(stdout[i].data) :
            ("VALUETYPE" \in DOMAIN stdout[i].data[k]
                /\ stdout[i].data[k].VALUETYPE = "Average") =>
                TwoDecimals(stdout[i].data[k].VALUE)

ToolCheckPassed == script \in {"Brokers", "ItemsClusters"} \/ ~ToolMissing

\* C11: every invocation that passes the tool check and runs to its end has
\* written exactly one line to standard output, a compact JSON document.
C11_OneCompactJsonLine ==
    (ToolCheckPassed /\ pc = "done") =>
        /\ Len(stdout) = 1
        /\ stdout[1].kind = "json"
        /\ stdout[1].sep = "compact"

StatusKeys == {"INFO", "MSG", "EXIT", "REGISTROS"}

\* C12: every printed JSON document with a top-level data array has a
\* non-empty array whose element 0 is the status object (INFO, MSG, EXIT,
\* REGISTROS) and no later element is a status object.
C12_StatusRowFirstOnly ==
    \A i \in DataLines :
        /\ Len(stdout[i].data) >= 1
        /\ DOMAIN stdout[i].data[1] = StatusKeys
        /\ \A k \in 2..Len(stdout[i].data) : ~IsStatus(stdout[i].data[k])

NoClustersNoFilter == listed.ok /\ listed.names = <<>> /\ ~clustername_filter.given

\* C13: when list_clusters answers with zero clusters and no filter is given,
\* a finished Brokers.py or host_cluster_test.py run has printed a single
\* status row with EXIT "2" and REGISTROS "0", and a finished ItemsBrokers.py
\* run has reported exit "0" with zero records and printed zero data rows.
C13_ZeroClusters ==
    (NoClustersNoFilter /\ pc = "done") =>
        /\ script \in {"Brokers", "host_cluster_test"} =>
              (OnlyStatusExit2 /\ stdout[1].data[1].REGISTROS = <<"0">>)
        /\ script = "ItemsBrokers" =>
              /\ Len(stdout) = 2
              /\ stdout[1].shape = "object"
              /\ stdout[1].obj.exit = <<"0">>
              /\ stdout[1].obj.registros = 0
              /\ IsData(stdout[2])
              /\ stdout[2].data = <<>>

\* A finished Brokers.py run on an account without clusters, no filter given.
C13_Witness ==
    /\ script = "Brokers"
    /\ NoClustersNoFilter
    /\ pc = "done"
    /\ OnlyStatusExit2

\* C16: in host_cluster_test.py no failure while talking to AWS leaves main
\* as an unhandled exception: once the first AWS call was attempted the run
\* never ends raised, and a finished run has printed one JSON status line.
C16_NoUnhandledAwsFailure ==
    (script = "host_cluster_test" /\ calls.session > 0) =>
        /\ raised = ""
        /\ pc # "raised"
        /\ pc = "done" => (Len(stdout) = 1 /\ IsData(stdout[1]) /\ IsStatus(stdout[1].data[1]))

\* The retained brokers of cluster c.
BrokersOf(c) == {b \in 1..Len(brokers) : brokers[b].ClusterName = c}
RetainedClusters == {brokers[b].ClusterName : b \in 1..Len(brokers)}
\* The printed cluster-level rows of cluster c.
OfflineRowsOf(c) ==
    {k \in 1..Len(stdout[1].data) :
        /\ ~IsStatus(stdout[1].data[k])
        /\ stdout[1].data[k].METRICNAME = "offlinePartitionsCount"
        /\ stdout[1].data[k].CLUSTERNAME = c}
BrokersPrinted == script = "Brokers" /\ pc = "done" /\ brokers # <<>>

\* C19: in Brokers.py one metric query is issued per retained broker, and for
\* a cluster whose B retained brokers each got the same last
\* OfflinePartitionsCount sample v the printed cluster value is B times v.
C19_OfflineIsBTimesV ==
    BrokersPrinted =>
        /\ QueryDimensions("offlinePartitionsCount") = {"Cluster Name"}
        /\ calls.cloudwatch = Len(brokers)
        /\ \A c \in RetainedClusters : \A v \in ValuesOf("offlinePartitionsCount") :
              (\A b \in BrokersOf(c) :
                  Averages(all_metrics_json[b].Metrics["offlinePartitionsCount"]) = <<v>>) =>
                 \A k \in OfflineRowsOf(c) :
                    stdout[1].data[k].VALUE = Fmt2f(100 * ((Cardinality(BrokersOf(c)) * v) \div 8))

\* Brokers.py has printed "2.00" for a cluster whose two brokers each got the
\* sample 1.0.
C19_Witness ==
    /\ BrokersPrinted
    /\ \E c \in RetainedClusters :
          /\ Cardinality(BrokersOf(c)) = 2
          /\ \A b \in BrokersOf(c) :
                Averages(all_metrics_json[b].Metrics["offlinePartitionsCount"]) = <<8>>
          /\ \E k \in OfflineRowsOf(c) : stdout[1].data[k].VALUE = <<"2", ".", "0", "0">>

NoSampleAtAll ==
    \A b \in 1..Len(all_metrics_json) : \A m \in 1..Len(MetricOrder) :
        all_metrics_json[b].Metrics[MetricOrder[m]] = <<>>

\* C20: in Brokers.py with at least one retained broker exactly one
\* offlinePartitionsCount row is printed for each distinct retained cluster,
\* with VALUE "0.00" when the cluster got no sample; and when no metric got
\* any sample the status row still has EXIT "0" and REGISTROS "0".
C20_OneOfflineRowPerCluster ==
    BrokersPrinted =>
        /\ Len(stdout) = 1
        /\ \A c \in RetainedClusters :
              /\ Cardinality(OfflineRowsOf(c)) = 1
              /\ (\A b \in BrokersOf(c) :
                     all_metrics_json[b].Metrics["offlinePartitionsCount"] = <<>>) =>
                    \A k \in OfflineRowsOf(c) : stdout[1].data[k].VALUE = <<"0", ".", "0", "0">>
        /\ \A k \in 2..Len(stdout[1].data) :
              stdout[1].data[k].METRICNAME = "offlinePartitionsCount" =>
                 stdout[1].data[k].CLUSTERNAME \in RetainedClusters
        /\ NoSampleAtAll =>
              (stdout[1].data[1].EXIT = <<"0">> /\ stdout[1].data[1].REGISTROS = <<"0">>)

\* Brokers.py has printed for two clusters of which none got any sample.
C20_Witness ==
    /\ BrokersPrinted
    /\ Cardinality(RetainedClusters) = 2
    /\ NoSampleAtAll
    /\ Len(stdout[1].data) = 3

Persisting == script \in {"ItemsBrokers", "hostsClusters"}
\* The script's JSON document is on stdout.
Printed ==
    \E i \in JsonLines :
        stdout[i].shape = (IF script = "ItemsBrokers" THEN "data" ELSE "array")
JsonSaved == files.json = Written(JsonChunks(all_metrics_json))
CsvSaved ==
    files.csv = Written(IF script = "ItemsBrokers" THEN CsvRows_IB(all_metrics_json)
                                                    ELSE CsvRows_HC(all_metrics_json))

\* The order of the three steps: a file is touched only after the print, the
\* CSV only after the JSON file was written completely.
C18_Order ==
    Persisting =>
        /\ files.json.exists => Printed
        /\ files.csv.exists => (Printed /\ JsonSaved)
        /\ pc = "done" => (Printed /\ JsonSaved /\ CsvSaved)

\* No step undoes an earlier one: the save steps leave stdout as it is, the
\* CSV step leaves the JSON file as it is, also when they fail.
C18_NoRollbackStep ==
    (Persisting /\ pc \in {"savejson", "savecsv"}) =>
        /\ stdout' = stdout
        /\ pc = "savecsv" => files'.json = files.json
        /\ pc' = "raised" =>
              \/ files' = files
              \/ /\ pc = "savejson"
                 /\ files'.json \in PartialWrites(JsonChunks(all_metrics_json))
                 /\ files'.csv = files.csv
              \/ /\ pc = "savecsv"
                 /\ files'.csv \in PartialWrites(IF script = "ItemsBrokers"
                                                 THEN CsvRows_IB(all_metrics_json)
                                                 ELSE CsvRows_HC(all_metrics_json))

\* C18: persistence in ItemsBrokers.py and hostsClusters.py is the fixed
\* sequence print, JSON file, CSV file without rollback: a failing later step
\* leaves the effects of every earlier step in place, and the failing write
\* leaves its own file untouched, truncated or partly written.
C18_FixedSequenceNoRollback == []C18_Order /\ [][C18_NoRollbackStep]_vars

\* The CSV write failed after the header: the document is printed, the JSON
\* file is complete, the CSV file holds a proper non-empty prefix.
C18_Witness ==
    /\ Persisting
    /\ pc = "raised"
    /\ raised = "OSError"
    /\ Printed
    /\ JsonSaved
    /\ files.csv.exists
    /\ ~CsvSaved
    /\ Len(files.csv.content) >= 1

\* The ids the running script puts into its get_metric_data queries.
QueriedIds ==
    IF script \in {"Brokers", "ItemsBrokers"}
    THEN {"cpuUser", "kafkaDataLogsDiskUsed", "offlinePartitionsCount"}
    ELSE {"offlinePartitionsCount"}
TheResult == response.MetricDataResults[1]
WellFormed == Len(TheResult.Timestamps) = Len(TheResult.Values) /\ TheResult.Id \in QueriedIds
GenEnded == pc \in {"generated", "raised"}

\* The timestamp/value pairs of a list of stored datapoints.
Pairs(points) ==
    [i \in 1..Len(points) |->
        <<points[i].Timestamp,
          IF "Sum" \in DOMAIN points[i] THEN points[i].Sum ELSE points[i].Average>>]
\* Every datapoint list of the generated document.
MetricLists ==
    IF script = "hostsClusters"
    THEN {all_metrics_json[1].MetricsCluster.OfflinePartitionsCount}
    ELSE {all_metrics_json[1].Metrics[m] : m \in DOMAIN all_metrics_json[1].Metrics}
\* The datapoint list of the metric the result is for.
ListOfResult ==
    IF script = "hostsClusters"
    THEN all_metrics_json[1].MetricsCluster.OfflinePartitionsCount
    ELSE all_metrics_json[1].Metrics[metric_id_map(TheResult.Id)]

\* C14: for a well-formed result of a queried metric, generate_metrics_json
\* of every script returns, and the metric's list is empty when the series is
\* empty and otherwise holds the one pair at the last position of the series.
C14_KeepsOnlyLastPair ==
    (GenEnded /\ WellFormed) =>
        /\ pc = "generated"
        /\ Pairs(ListOfResult) =
              IF TheResult.Timestamps = <<>> THEN <<>>
              ELSE <<<<strftime(TheResult.Timestamps[Len(TheResult.Timestamps)]),
                       TheResult.Values[Len(TheResult.Values)]>>>>

\* C15: for a result whose Timestamps and Values differ in length or whose Id
\* was not queried, generate_metrics_json returns normally and every metric
\* list of the document is empty.
C15_MalformedGivesEmptyList ==
    (GenEnded /\ ~WellFormed) =>
        /\ pc = "generated"
        /\ raised = ""
        /\ \A l \in MetricLists : l = <<>>

BothDone == \A p \in Invocations : inv[p].pc = "done"

\* C17: nothing coordinates two concurrent invocations of a persisting
\* script: whatever the other one is doing, an invocation about to open an
\* output file can open (and truncate) it, and one that has it open can write.
C17_NoLockOnOutputFiles ==
    \A p \in Invocations :
        /\ inv[p].pc = "savejson" => ENABLED OpenJson(p)
        /\ inv[p].pc = "writejson" => ENABLED WriteJson(p)
        /\ inv[p].pc = "savecsv" => ENABLED OpenCsv(p)
        /\ inv[p].pc = "writecsv" => ENABLED WriteCsv(p)

\* Both invocations have finished, and neither the JSON file nor the CSV file
\* is the complete output of one of them.
C17_Witness ==
    /\ BothDone
    /\ \A p \in Invocations : files.json.content # JsonOf(p)
    /\ \A p \in Invocations : files.csv.content # CsvOf(p)

\* The printed data array of Brokers.py and the kinds of its rows.
Data == stdout[1].data
IsBrokerRow(row) == "BROKERID" \in DOMAIN row
IsClusterRow(row) == ~IsStatus(row) /\ ~IsBrokerRow(row)
\* The position in the enumeration of the broker a per-broker row is about.
BrokerIndex(row) ==
    CHOOSE b \in 1..Len(brokers) :
        /\ brokers[b].ClusterName = row.CLUSTERNAME
        /\ Str(brokers[b].BrokerId) = row.BROKERID
\* The position in the enumeration of the first broker of a cluster.
FirstAppearance(c) ==
    CHOOSE b \in 1..Len(brokers) :
        /\ brokers[b].ClusterName = c
        /\ \A a \in 1..(b - 1) : brokers[a].ClusterName # c
MetricRank(name) == CHOOSE k \in 1..Len(MetricOrder) : MetricOrder[k] = name

\* C21: the data array Brokers.py prints is ordered: the status row, then the
\* per-broker rows in broker enumeration order (CpuUser before
\* KafkaDataLogsDiskUsed for one broker), then the cluster-level rows in order
\* of first appearance of their cluster; no cluster-level row precedes a
\* per-broker row.
C21_DataArrayOrder ==
    BrokersPrinted =>
        /\ IsStatus(Data[1])
        /\ \A i \in 2..Len(Data) : \A j \in (i + 1)..Len(Data) :
              /\ ~IsStatus(Data[j])
              /\ ~(IsClusterRow(Data[i]) /\ IsBrokerRow(Data[j]))
              /\ (IsBrokerRow(Data[i]) /\ IsBrokerRow(Data[j])) =>
                    \/ BrokerIndex(Data[i]) < BrokerIndex(Data[j])
                    \/ /\ BrokerIndex(Data[i]) = BrokerIndex(Data[j])
                       /\ MetricRank(Data[i].METRICNAME) < MetricRank(Data[j].METRICNAME)
              /\ (IsClusterRow(Data[i]) /\ IsClusterRow(Data[j])) =>
                    FirstAppearance(Data[i].CLUSTERNAME) < FirstAppearance(Data[j].CLUSTERNAME)

\* Brokers.py has printed the rows of two brokers of two clusters, both
\* metrics sampled for both: four per-broker rows, then two cluster rows.
C21_Witness ==
    /\ BrokersPrinted
    /\ Cardinality(RetainedClusters) = 2
    /\ Len(Data) = 7
    /\ IsBrokerRow(Data[2]) /\ Data[2].METRICNAME = "CpuUser"
    /\ IsBrokerRow(Data[3]) /\ Data[3].METRICNAME = "KafkaDataLogsDiskUsed"
    /\ IsBrokerRow(Data[5])
    /\ IsClusterRow(Data[6])
    /\ IsClusterRow(Data[7])

\* The invocation that started last, once one has started.
LastStarted == CHOOSE p \in Invocations : inv[p].start = Runs
\* Every invocation has run to its end (the last statement of main or exit(1)).
AllCompleted == Runs > 0 /\ \A p \in Invocations : inv[p].pc \in {"idle", "done", "exit"}
OnlyLinesOfLast ==
    /\ log.content = inv[LastStarted].lines
    /\ log.content # <<>>
    /\ Head(log.content) = <<"Inicio del script">>

\* C22 as stated: after any invocations of the day that have all completed,
\* overlapping or not, the log holds only the lines of the invocation that
\* started last, beginning with its 'Inicio del script' line.
C22_LogHoldsLastInvocationOnly == AllCompleted => OnlyLinesOfLast

\* C22 amended: the same, for an invocation that started last while no other
\* invocation was running; it holds from its 'Inicio del script' line on.
C22_LogHoldsLastInvocationAlone ==
    (Runs > 0 /\ inv[LastStarted].alone /\ inv[LastStarted].pc # "inicio") => OnlyLinesOfLast

\* Two invocations one after the other: the second has completed, the first
\* had written other lines, and the log holds the lines of the second.
C22_Witness ==
    /\ AllCompleted
    /\ Runs = 2
    /\ inv[LastStarted].alone
    /\ inv[LastStarted].pc = "done"
    /\ \E q \in Invocations :
          /\ inv[q].start = 1
          /\ inv[q].pc = "done"
          /\ inv[q].lines # inv[LastStarted].lines
    /\ OnlyLinesOfLast
====
